---------------------------- MODULE Spec2Model ----------------------------
(***************************************************************************)
(* Model of the biomarker extraction pipeline of PyScript/Extractdata.py:  *)
(* extract_value, extract_patient_info, get_patient_json_path,             *)
(* save_biomarkers_json, process_pdf_to_json and process_directory.        *)
(*                                                                         *)
(* A Python str is modelled as a sequence of one-character strings, so     *)
(* that cleaning, case folding, substring search, splitting and the        *)
(* regular expressions are computed character by character.                *)
(***************************************************************************)
EXTENDS Integers, Sequences, FiniteSets, TLC

VARIABLES
    ev_line, ev_name, ev_result, ev_pc,          \* one call of extract_value
    pi_text, pi_result, pi_pc,                   \* one call of extract_patient_info
    pdf, lines, idx, biomarkers, calls,          \* one call of process_pdf_to_json
    patient_info, json_data, pc, ret,
    pdf_files, k, attempts, results, faults,     \* one call of process_directory
    saved, bpc,
    clock, reports                               \* datetime.now() and the reports directory

vars == << ev_line, ev_name, ev_result, ev_pc, pi_text, pi_result, pi_pc,
           pdf, lines, idx, biomarkers, calls, patient_info, json_data, pc, ret,
           pdf_files, k, attempts, results, faults, saved, bpc, clock, reports >>

evVars    == << ev_line, ev_name, ev_result, ev_pc >>
piVars    == << pi_text, pi_result, pi_pc >>
pdfVars   == << pdf, lines, idx, biomarkers, calls, patient_info, json_data, pc, ret >>
batchVars == << pdf_files, k, attempts, results, faults, saved, bpc >>

-----------------------------------------------------------------------------
(* Bounds of the model *)

\* pieces concatenated into the line given to extract_value
MaxPieces == 3
\* lines of the text given to extract_patient_info
MaxInfoLines == 3
\* pages of the document given to process_pdf_to_json
MaxPages == 3
\* documents of the directory given to process_directory
MaxFiles == 3

-----------------------------------------------------------------------------
(* Python values *)

\* Python's None
None == [kind |-> "None"]

\* a Python float holding the decimal num/den (den a power of ten, the
\* fraction in lowest decimal terms); den = 0 stands for inf (num # 0) and nan
Float(num, den) == [kind |-> "float", num |-> num, den |-> den]

Min(S) == CHOOSE x \in S : \A y \in S : x <= y

-----------------------------------------------------------------------------
(* str operations *)

Digits == {"0", "1", "2", "3", "4", "5", "6", "7", "8", "9"}

\* the characters str.split() and the regex class \s treat as whitespace
Whitespace == {" ", "\t", "\n", "\r", "\f"}

IsDigit(c) == c \in Digits

IsSpace(c) == c \in Whitespace

DigitVal == ("0" :> 0) @@ ("1" :> 1) @@ ("2" :> 2) @@ ("3" :> 3) @@ ("4" :> 4) @@
            ("5" :> 5) @@ ("6" :> 6) @@ ("7" :> 7) @@ ("8" :> 8) @@ ("9" :> 9)

LowerMap == [A |-> "a", B |-> "b", C |-> "c", D |-> "d", E |-> "e", F |-> "f",
             G |-> "g", H |-> "h", I |-> "i", J |-> "j", K |-> "k", L |-> "l",
             M |-> "m", N |-> "n", O |-> "o", P |-> "p", Q |-> "q", R |-> "r",
             S |-> "s", T |-> "t", U |-> "u", V |-> "v", W |-> "w", X |-> "x",
             Y |-> "y", Z |-> "z"]

\* str.lower()
Lower(s) == [i \in 1..Len(s) |-> IF s[i] \in DOMAIN LowerMap THEN LowerMap[s[i]] ELSE s[i]]

\* s[i:i+len(sub)] == sub
MatchAt(sub, s, i) ==
    /\ i + Len(sub) - 1 <= Len(s)
    /\ \A j \in 1..Len(sub) : s[i + j - 1] = sub[j]

\* the Python test `sub in s`
Contains(sub, s) == \E i \in 1..(Len(s) + 1) : MatchAt(sub, s, i)

\* str.replace(c, '') for each character c of the set chars
RECURSIVE RemoveChars(_, _)
RemoveChars(s, chars) ==
    IF s = << >> THEN << >>
    ELSE IF Head(s) \in chars THEN RemoveChars(Tail(s), chars)
    ELSE << Head(s) >> \o RemoveChars(Tail(s), chars)

\* str.split(sep) for a one-character separator: the pieces between the
\* separators, empty pieces included
RECURSIVE SplitOn(_, _)
SplitOn(s, sep) ==
    LET hits == {i \in 1..Len(s) : s[i] = sep}
    IN  IF hits = {} THEN << s >>
        ELSE << SubSeq(s, 1, Min(hits) - 1) >>
                 \o SplitOn(SubSeq(s, Min(hits) + 1, Len(s)), sep)

\* str.split(): the maximal runs of non-whitespace characters
RECURSIVE SplitWords(_)
SplitWords(s) ==
    LET starts == {i \in 1..Len(s) : ~IsSpace(s[i])}
    IN  IF starts = {} THEN << >>
        ELSE LET b == Min(starts)
                 stops == {i \in b..Len(s) : IsSpace(s[i])}
                 e == IF stops = {} THEN Len(s) + 1 ELSE Min(stops)
             IN  << SubSeq(s, b, e - 1) >> \o SplitWords(SubSeq(s, e, Len(s)))

\* str.strip()
RECURSIVE Strip(_)
Strip(s) ==
    IF s = << >> THEN s
    ELSE IF IsSpace(Head(s)) THEN Strip(Tail(s))
    ELSE IF IsSpace(s[Len(s)]) THEN Strip(SubSeq(s, 1, Len(s) - 1))
    ELSE s

\* the value of a string of decimal digits, as int() reads it
RECURSIVE ToNat(_)
ToNat(s) == IF s = << >> THEN 0 ELSE 10 * ToNat(SubSeq(s, 1, Len(s) - 1)) + DigitVal[s[Len(s)]]

RECURSIVE Pow10(_)
Pow10(n) == IF n = 0 THEN 1 ELSE 10 * Pow10(n - 1)

RECURSIVE StripZeros(_)
StripZeros(s) ==
    IF s # << >> /\ s[Len(s)] = "0" THEN StripZeros(SubSeq(s, 1, Len(s) - 1)) ELSE s

\* the decimal ip.fp with the sign given, fp without its trailing zeros
Decimal(sign, ip, fp) == Float(sign * ToNat(ip \o fp), Pow10(Len(fp)))

\* the index of the first point of body, Len(body) + 1 when it has none
PointAt(body) == Min({i \in 1..(Len(body) + 1) : i = Len(body) + 1 \/ body[i] = "."})

\* float() of a word without its sign: None stands for the ValueError of a
\* word that is no number. Read are inf, infinity and nan in any case, and
\* decimal digits with at most one point; the exponent and underscore forms
\* of float() use characters that no modelled line combines with digits.
ParseUnsigned(sign, body) ==
    IF Lower(body) \in {<<"i", "n", "f">>, <<"i", "n", "f", "i", "n", "i", "t", "y">>} THEN Float(sign, 0)
    ELSE IF Lower(body) = <<"n", "a", "n">> THEN Float(0, 0)
    ELSE IF /\ \A i \in 1..Len(body) : IsDigit(body[i]) \/ body[i] = "."
            /\ Cardinality({i \in 1..Len(body) : body[i] = "."}) <= 1
            /\ \E i \in 1..Len(body) : IsDigit(body[i])
         THEN Decimal(sign, SubSeq(body, 1, PointAt(body) - 1),
                      StripZeros(SubSeq(body, PointAt(body) + 1, Len(body))))
    ELSE None

\* float(word), with its optional sign
ParseFloat(word) ==
    IF word # << >> /\ word[1] \in {"+", "-"}
    THEN ParseUnsigned(IF word[1] = "-" THEN -1 ELSE 1, Tail(word))
    ELSE ParseUnsigned(1, word)

-----------------------------------------------------------------------------
(* Regular expression pieces used by extract_value *)

\* the first index >= i of s that holds no digit (Len(s) + 1 if none): \d*
DigitsEnd(s, i) == Min({j \in i..(Len(s) + 1) : j = Len(s) + 1 \/ ~IsDigit(s[j])})

\* the first index >= i of s that holds no whitespace: \s*
SpaceEnd(s, i) == Min({j \in i..(Len(s) + 1) : j = Len(s) + 1 \/ ~IsSpace(s[j])})

\* the end (exclusive) of the greedy match of \d+\.?\d* starting at the digit s[i]
NumEnd(s, i) ==
    LET a == DigitsEnd(s, i)
    IN  IF a <= Len(s) /\ s[a] = "." THEN DigitsEnd(s, a + 1) ELSE a

HPLC == <<"h", ".", "p", ".", "l", ".", "c">>

\* (\d+\.?\d*)\s*%  matches from index i
MatchPercent(s, i) ==
    /\ IsDigit(s[i])
    /\ LET e == SpaceEnd(s, NumEnd(s, i)) IN e <= Len(s) /\ s[e] = "%"

\* H\.P\.L\.C\s*(\d+\.?\d*)  matches from index i (re.IGNORECASE)
MatchHplcNum(s, i) ==
    /\ MatchAt(HPLC, Lower(s), i)
    /\ LET d == SpaceEnd(s, i + Len(HPLC)) IN d <= Len(s) /\ IsDigit(s[d])

\* (\d+\.?\d*)\s*H\.P\.L\.C  matches from index i (re.IGNORECASE)
MatchNumHplc(s, i) ==
    /\ IsDigit(s[i])
    /\ MatchAt(HPLC, Lower(s), SpaceEnd(s, NumEnd(s, i)))

\* (\d+\.?\d*)\s*$  matches from index i
MatchNumEnd(s, i) ==
    /\ IsDigit(s[i])
    /\ SpaceEnd(s, NumEnd(s, i)) = Len(s) + 1

\* re.search: the leftmost of the indices a pattern matches from, 0 when
\* there is none
Leftmost(hits) == IF hits = {} THEN 0 ELSE Min(hits)

SearchPercent(s) == Leftmost({i \in 1..Len(s) : MatchPercent(s, i)})

SearchHplcNum(s) == Leftmost({i \in 1..Len(s) : MatchHplcNum(s, i)})

SearchNumHplc(s) == Leftmost({i \in 1..Len(s) : MatchNumHplc(s, i)})

SearchNumEnd(s) == Leftmost({i \in 1..Len(s) : MatchNumEnd(s, i)})

\* match.group(1) of a pattern whose group opens the match
GroupAtStart(s, i) == SubSeq(s, i, NumEnd(s, i) - 1)

\* match.group(1) of the H.P.L.C-first pattern
GroupAfterHplc(s, i) == GroupAtStart(s, SpaceEnd(s, i + Len(HPLC)))

-----------------------------------------------------------------------------
(* extract_value *)

\* line.replace(',', '').replace('<', '').replace('>', '')
CleanLine(line) == RemoveChars(line, {",", "<", ">"})

\* match.group(1) of the first of the four HbA1c patterns, in list order,
\* that re.search finds; a, b, c and d are where each pattern matches
FirstGroup(clean_line, a, b, c, d) ==
    IF a # 0 THEN GroupAtStart(clean_line, a)
    ELSE IF b # 0 THEN GroupAfterHplc(clean_line, b)
    ELSE IF c # 0 THEN GroupAtStart(clean_line, c)
    ELSE GroupAtStart(clean_line, d)

\* whether the loop over the four HbA1c patterns finds a match
AnyPattern(clean_line) ==
    \E i \in 1..Len(clean_line) :
        \/ MatchPercent(clean_line, i) \/ MatchHplcNum(clean_line, i)
        \/ MatchNumHplc(clean_line, i) \/ MatchNumEnd(clean_line, i)

\* float(match.group(1)) of that match
HbA1cPatterns(clean_line) ==
    ParseFloat(FirstGroup(clean_line, SearchPercent(clean_line),
                          SearchHplcNum(clean_line), SearchNumHplc(clean_line),
                          SearchNumEnd(clean_line)))

\* fault model: the words are scanned from the left, not from the right
RECURSIVE FirstNumber(_)
FirstNumber(words) ==
    IF words = << >> THEN None
    ELSE IF ParseFloat(Head(words)) # None THEN ParseFloat(Head(words))
    ELSE FirstNumber(Tail(words))

\* for word in reversed(words): the float of the last word float() accepts,
\* None when the loop ends; val is float() of the last word
RECURSIVE LastNumber(_)
RECURSIVE LastNumberOr(_, _)
LastNumberOr(val, words) ==
    IF val # None THEN val ELSE LastNumber(SubSeq(words, 1, Len(words) - 1))

LastNumber(words) ==
    IF words = << >> THEN None ELSE LastNumberOr(ParseFloat(words[Len(words)]), words)

\* the test 'hba1c' in biomarker_name.lower()
IsHbA1cName(biomarker_name) == Contains(<<"h", "b", "a", "1", "c">>, Lower(biomarker_name))

\* the body of extract_value on the cleaned line: the HbA1c patterns return
\* when one matches, and every other case reaches the loop over the words
ExtractClean(clean_line, biomarker_name) ==
    IF IsHbA1cName(biomarker_name) /\ AnyPattern(clean_line)
    THEN HbA1cPatterns(clean_line)
    ELSE LastNumber(SplitWords(clean_line))

extract_value(line, biomarker_name) == ExtractClean(CleanLine(line), biomarker_name)

-----------------------------------------------------------------------------
(* datetime *)

\* str(n) zero-padded to width w, as strftime prints a field
RECURSIVE Pad(_, _)
Pad(n, w) == IF w = 0 THEN << >> ELSE Pad(n \div 10, w - 1) \o << CHOOSE c \in Digits : DigitVal[c] = n % 10 >>

\* a datetime is << year, month, day, hour, minute, second >>
\* date.strftime("%Y%m%d")
StrfCompact(date) == Pad(date[1], 4) \o Pad(date[2], 2) \o Pad(date[3], 2)

\* datetime.now().strftime("%Y-%m-%d")
StrfDate(date) == Pad(date[1], 4) \o <<"-">> \o Pad(date[2], 2) \o <<"-">> \o Pad(date[3], 2)

\* current_date.strftime("%Y-%m-%d %H:%M:%S")
StrfDateTime(date) ==
    StrfDate(date) \o <<" ">> \o Pad(date[4], 2) \o <<":">> \o Pad(date[5], 2) \o <<":">> \o Pad(date[6], 2)

-----------------------------------------------------------------------------
(* extract_patient_info *)

NAME == <<"N", "A", "M", "E">>

\* where the name group ([^(]+) starts when NAME\s*:?\s*([^(]+) is matched
\* from index i, 0 when it cannot match there. The greedy \s*:?\s* runs to g;
\* when no character other than "(" stands at g, the last character that
\* \s*:?\s* took is handed back to the group.
NameGroupStart(line, i) ==
    IF ~MatchAt(NAME, line, i) THEN 0
    ELSE LET a == SpaceEnd(line, i + Len(NAME))
             b == IF a <= Len(line) /\ line[a] = ":" THEN a + 1 ELSE a
             g == SpaceEnd(line, b)
         IN  IF g <= Len(line) /\ line[g] # "(" THEN g
             ELSE IF g > i + Len(NAME) THEN g - 1
             ELSE 0

NameMatchAt(line, i) == NameGroupStart(line, i) # 0

\* re.search of the name pattern in a line
SearchName(line) == Leftmost({i \in 1..Len(line) : NameMatchAt(line, i)})

\* the end (exclusive) of the greedy [^(]+ starting at index b
NameGroupEnd(line, b) == Min({j \in b..(Len(line) + 1) : j = Len(line) + 1 \/ line[j] = "("})

\* whether (?:\((\d+)Y/([MF])\)) matches from index e
SuffixAt(line, e) ==
    /\ e + 1 <= Len(line)
    /\ line[e] = "("
    /\ IsDigit(line[e + 1])
    /\ LET d == DigitsEnd(line, e + 1)
       IN  /\ d + 3 <= Len(line)
           /\ line[d] = "Y"
           /\ line[d + 1] = "/"
           /\ line[d + 2] \in {"M", "F"}
           /\ line[d + 3] = ")"

\* the dictionary built from a match whose name group is line[b..e-1]
InfoFromGroup(line, b, e, now) ==
    [ name   |-> <<"D", "r", ".", " ">> \o Strip(SubSeq(line, b, e - 1)),
      age    |-> IF SuffixAt(line, e)
                 THEN ToNat(SubSeq(line, e + 1, DigitsEnd(line, e + 1) - 1)) ELSE None,
      gender |-> IF SuffixAt(line, e) THEN << line[DigitsEnd(line, e + 1) + 2] >> ELSE None,
      date   |-> StrfDate(now) ]

InfoFromStart(line, b, now) == InfoFromGroup(line, b, NameGroupEnd(line, b), now)

\* the dictionary returned for a line on which re.search matched
InfoFromLine(line, now) == InfoFromStart(line, NameGroupStart(line, SearchName(line)), now)

\* fault model: the title is put before the sentinel name too
UnknownInfoTitled(now) ==
    [ name |-> <<"D", "r", ".", " ", "U", "n", "k", "n", "o", "w", "n">>, age |-> None, gender |-> None, date |-> StrfDate(now) ]

\* the dictionary returned when the loop ends
UnknownInfo(now) ==
    [ name |-> <<"U", "n", "k", "n", "o", "w", "n">>, age |-> None, gender |-> None, date |-> StrfDate(now) ]

\* the test `'NAME' in line` of the loop
HasMarker(line) == Contains(NAME, line)

\* fault model: the loop returns at the first line that holds the marker,
\* whether or not the pattern matches it
RECURSIVE InfoLoopStop(_, _, _)
InfoLoopStop(ls, n, now) ==
    IF n > Len(ls) THEN UnknownInfo(now)
    ELSE IF HasMarker(ls[n])
         THEN IF SearchName(ls[n]) # 0 THEN InfoFromLine(ls[n], now)
              ELSE UnknownInfo(now)
    ELSE InfoLoopStop(ls, n + 1, now)

\* the loop over text.split('\n') from line n on: it returns at the first
\* line that holds the marker and that the pattern matches
RECURSIVE InfoLoop(_, _, _)
InfoLoop(ls, n, now) ==
    IF n > Len(ls) THEN UnknownInfo(now)
    ELSE IF HasMarker(ls[n]) /\ SearchName(ls[n]) # 0 THEN InfoFromLine(ls[n], now)
    ELSE InfoLoop(ls, n + 1, now)

extract_patient_info(text, now) == InfoLoop(SplitOn(text, "\n"), 1, now)

-----------------------------------------------------------------------------
(* The biomarkers of process_pdf_to_json and get_reference_ranges *)

TotalCholesterol == <<"T", "o", "t", "a", "l", " ", "C", "h", "o", "l", "e", "s", "t", "e", "r", "o", "l">>
LDL == <<"L", "D", "L">>
HDL == <<"H", "D", "L">>
Triglycerides == <<"T", "r", "i", "g", "l", "y", "c", "e", "r", "i", "d", "e", "s">>
Creatinine == <<"C", "r", "e", "a", "t", "i", "n", "i", "n", "e">>
VitaminD == <<"V", "i", "t", "a", "m", "i", "n", " ", "D">>
VitaminB12 == <<"V", "i", "t", "a", "m", "i", "n", " ", "B", "1", "2">>
HbA1c == <<"H", "b", "A", "1", "c">>

\* the keys of the biomarkers dictionary, in insertion order
BiomarkerOrder ==
    << TotalCholesterol, LDL, HDL, Triglycerides, Creatinine, VitaminD, VitaminB12, HbA1c >>

BiomarkerNames == {BiomarkerOrder[i] : i \in 1..Len(BiomarkerOrder)}

\* info["patterns"] of each biomarker
Patterns ==
    (TotalCholesterol :> << <<"T", "O", "T", "A", "L", " ", "C", "H", "O", "L", "E", "S", "T", "E", "R", "O", "L">>, <<"C", "H", "O", "L", "E", "S", "T", "E", "R", "O", "L", " ", "-", " ", "T", "O", "T", "A", "L">> >>) @@
    (LDL              :> << <<"L", "D", "L", " ", "C", "H", "O", "L", "E", "S", "T", "E", "R", "O", "L">>, <<"L", "D", "L", "-", "C">> >>) @@
    (HDL              :> << <<"H", "D", "L", " ", "C", "H", "O", "L", "E", "S", "T", "E", "R", "O", "L">>, <<"H", "D", "L", "-", "C">> >>) @@
    (Triglycerides    :> << <<"T", "R", "I", "G", "L", "Y", "C", "E", "R", "I", "D", "E", "S">>, <<"T", "R", "I", "G">> >>) @@
    (Creatinine       :> << <<"C", "R", "E", "A", "T", "I", "N", "I", "N", "E">>, <<"C", "R", "E", "A", "T", "I", "N", "I", "N", "E", " ", "-", " ", "S", "E", "R", "U", "M">> >>) @@
    (VitaminD         :> << <<"V", "I", "T", "A", "M", "I", "N", " ", "D">>, <<"2", "5", "-", "O", "H", " ", "V", "I", "T", "A", "M", "I", "N", " ", "D">> >>) @@
    (VitaminB12       :> << <<"V", "I", "T", "A", "M", "I", "N", " ", "B", "-", "1", "2">>, <<"V", "I", "T", "A", "M", "I", "N", " ", "B", "1", "2">>, <<"B", "-", "1", "2">> >>) @@
    (HbA1c            :> << <<"H", "b", "A", "1", "c">>, <<"H", "b", "A", "1", "c", " ", "-", " ", "(", "H", "P", "L", "C", ")">>, <<"G", "L", "Y", "C", "A", "T", "E", "D", " ", "H", "E", "M", "O", "G", "L", "O", "B", "I", "N">> >>)

\* get_reference_ranges(); unit and reference_range are passed through
\* unread, so they are kept as plain strings
get_reference_ranges ==
    (VitaminD         :> [unit |-> "ng/mL", reference_range |-> "30-100",
                          low |-> Float(30, 1), high |-> Float(100, 1)]) @@
    (VitaminB12       :> [unit |-> "pg/mL", reference_range |-> "211-911",
                          low |-> Float(211, 1), high |-> Float(911, 1)]) @@
    (TotalCholesterol :> [unit |-> "mg/dL", reference_range |-> "<200",
                          low |-> Float(0, 1), high |-> Float(200, 1)]) @@
    (LDL              :> [unit |-> "mg/dL", reference_range |-> "<100",
                          low |-> Float(0, 1), high |-> Float(100, 1)]) @@
    (HDL              :> [unit |-> "mg/dL", reference_range |-> ">40",
                          low |-> Float(40, 1), high |-> Float(100, 1)]) @@
    (Triglycerides    :> [unit |-> "mg/dL", reference_range |-> "<150",
                          low |-> Float(0, 1), high |-> Float(150, 1)]) @@
    (Creatinine       :> [unit |-> "mg/dL", reference_range |-> "0.7-1.3",
                          low |-> Float(7, 10), high |-> Float(13, 10)]) @@
    (HbA1c            :> [unit |-> "%", reference_range |-> "<5.7",
                          low |-> Float(0, 1), high |-> Float(57, 10)])

-----------------------------------------------------------------------------
(* Inputs *)

\* all concatenations of at most n members of the set pool
RECURSIVE Concats(_, _)
Concats(pool, n) ==
    IF n = 0 THEN {<< >>}
    ELSE LET shorter == Concats(pool, n - 1)
         IN  shorter \cup {s \o p : s \in shorter, p \in pool}

\* all sequences of at most n members of the set pool
RECURSIVE SeqsUpTo(_, _)
SeqsUpTo(pool, n) ==
    IF n = 0 THEN {<< >>}
    ELSE LET shorter == SeqsUpTo(pool, n - 1)
         IN  shorter \cup {Append(s, p) : s \in shorter, p \in pool}

\* '\n'.join(ls)
RECURSIVE JoinLines(_)
JoinLines(ls) ==
    IF ls = << >> THEN << >>
    ELSE IF Len(ls) = 1 THEN ls[1]
    ELSE ls[1] \o <<"\n">> \o JoinLines(Tail(ls))

\* the pieces a line given to extract_value is made of:
\*   H.p.l.C   6.1   >5   %   a space   ,   <   mg   .
Pieces == { <<"H", ".", "p", ".", "l", ".", "C">>, <<"6", ".", "1">>, <<">", "5">>, <<"%">>, <<" ">>, <<",">>, <<"<">>, <<"m", "g">>, <<".">> }

ValueLines == Concats(Pieces, MaxPieces)

\* the lines a text given to extract_patient_info is made of:
\*   NAME: A (5Y/M)         name, age and gender
\*   NAME :B(x)             a name and a parenthesis that is no age and gender
\*   PATIENT NAME           the marker at the end of the line
\*   NAME(7Y/F)             the marker directly before "("
\*   NAME                   the marker and one space (written with it below)
\*   Name: C                no marker: the case differs
\*   LDL-C 120              no marker
\*   NAME(NAME D (12Y/F)    the marker twice, the pattern matching the second
InfoLinePool ==
    { <<"N", "A", "M", "E", ":", " ", "A", " ", "(", "5", "Y", "/", "M", ")">>,
      <<"N", "A", "M", "E", " ", ":", "B", "(", "x", ")">>,
      <<"P", "A", "T", "I", "E", "N", "T", " ", "N", "A", "M", "E">>,
      <<"N", "A", "M", "E", "(", "7", "Y", "/", "F", ")">>,
      <<"N", "A", "M", "E", " ">>,
      <<"N", "a", "m", "e", ":", " ", "C">>,
      <<"L", "D", "L", "-", "C", " ", "1", "2", "0">>,
      <<"N", "A", "M", "E", "(", "N", "A", "M", "E", " ", "D", " ", "(", "1", "2", "Y", "/", "F", ")">> }

InfoTexts == {JoinLines(ls) : ls \in SeqsUpTo(InfoLinePool, MaxInfoLines)}

\* the values datetime.now() takes
Dates == { << 2024, 3, 9, 8, 5, 0 >>, << 2024, 3, 10, 23, 59, 59 >> }

-----------------------------------------------------------------------------
(* get_patient_json_path and save_biomarkers_json *)

\* the characters [a-zA-Z0-9] keeps
IsAlnum(c) == c \in Digits \/ c \in DOMAIN LowerMap \/ c \in {LowerMap[u] : u \in DOMAIN LowerMap}

\* re.sub(r'[^a-zA-Z0-9]', '_', patient_name.lower())
SafeName(patient_name) ==
    LET low == Lower(patient_name)
    IN  [i \in 1..Len(low) |-> IF IsAlnum(low[i]) THEN low[i] ELSE "_"]

get_patient_json_path(patient_name, date) ==
    SafeName(patient_name) \o <<"_">> \o StrfCompact(date) \o <<".", "j", "s", "o", "n">>

\* filepath of save_biomarkers_json: os.path.join("reports", filename)
ReportPath(patient_name, date) == <<"r", "e", "p", "o", "r", "t", "s", "/">> \o get_patient_json_path(patient_name, date)

\* the reports directory after save_biomarkers_json(data, patient_name, date):
\* the file at filepath is overwritten when the write goes through, and the
\* directory is left as it was when the write raises
save_biomarkers_json(fs, data, patient_name, date, write_ok) ==
    IF write_ok THEN (ReportPath(patient_name, date) :> data) @@ fs ELSE fs

-----------------------------------------------------------------------------
(* process_pdf_to_json: the scan of the lines *)

\* biomarkers as first built: every info["value"] is None
NoValues == [n \in BiomarkerNames |-> None]

\* fault model: range(0, 3), which reads the matching line too
LookaheadOffsetsFromZero == << 0, 1, 2 >>

\* the offsets of `for offset in range(1, 3)`
LookaheadOffsets == << 1, 2 >>

\* a record of one call of extract_value made by the scan for a biomarker:
\* the pattern that matched, the line that matched and the line given to it
Call(name, p, at, line, val) ==
    [biomarker |-> name, pattern |-> p, at |-> at, line |-> line, value |-> val]

\* the result of a branch that made the call c, followed by what the rest of
\* its loop does when the call yielded nothing
Then(c, rest) ==
    IF c.value # None THEN [value |-> c.value, calls |-> << c >>]
    ELSE [value |-> rest.value, calls |-> << c >> \o rest.calls]

\* the HbA1c branch for pattern p matching line ix: the lines after it, from
\* the o-th offset on, stopping at the first that yields a value
RECURSIVE Lookahead(_, _, _, _)
Lookahead(ls, ix, p, o) ==
    IF o > Len(LookaheadOffsets) THEN [value |-> None, calls |-> << >>]
    ELSE IF ix + LookaheadOffsets[o] <= Len(ls)
         THEN Then(Call(HbA1c, p, ix, ix + LookaheadOffsets[o],
                        extract_value(ls[ix + LookaheadOffsets[o]], HbA1c)),
                   Lookahead(ls, ix, p, o + 1))
         ELSE Lookahead(ls, ix, p, o + 1)

\* fault model: the else branch reads the line after the matching line
SameLineNext(name, ls, ix, p) ==
    IF ix + 1 <= Len(ls)
    THEN Then(Call(name, p, ix, ix + 1, extract_value(ls[ix + 1], name)),
              [value |-> None, calls |-> << >>])
    ELSE [value |-> None, calls |-> << >>]

\* the else branch for pattern p matching line ix: the line itself
SameLine(name, ls, ix, p) ==
    Then(Call(name, p, ix, ix, extract_value(ls[ix], name)), [value |-> None, calls |-> << >>])

\* the test `pattern.lower() in line.lower()`
PatternIn(pattern, line) == Contains(Lower(pattern), Lower(line))

\* the test `biomarker == "HbA1c"`
UsesLookahead(name) == name = HbA1c

\* the result of a pattern's branch r, followed by the rest of the loop over
\* the patterns when the branch left the value unset
OrNext(r, rest) ==
    IF r.value # None THEN r ELSE [value |-> rest.value, calls |-> r.calls \o rest.calls]

\* `for pattern in info["patterns"]` from the p-th pattern on, for line ix:
\* the loop breaks at the first pattern whose branch sets the value
RECURSIVE MatchLine(_, _, _, _)
MatchLine(name, ls, ix, p) ==
    IF p > Len(Patterns[name]) THEN [value |-> None, calls |-> << >>]
    ELSE IF PatternIn(Patterns[name][p], ls[ix])
         THEN OrNext(IF UsesLookahead(name) THEN Lookahead(ls, ix, p, 1)
                     ELSE SameLine(name, ls, ix, p),
                     MatchLine(name, ls, ix, p + 1))
         ELSE MatchLine(name, ls, ix, p + 1)

\* fault model: the guard is missing, so a biomarker is looked for on every line
AlwaysAbsent(bm, name) == TRUE

\* the guard `if info["value"] is None`
StillAbsent(bm, name) == bm[name] = None

\* info["value"] is assigned only a value that was found
Assign(old, m) == [value |-> IF m.value # None THEN m.value ELSE old, calls |-> m.calls]

\* the body of `for biomarker, info in biomarkers.items()` for line ix
ScanBiomarker(bm, name, ls, ix) ==
    IF StillAbsent(bm, name)
    THEN Assign(bm[name], MatchLine(name, ls, ix, 1))
    ELSE [value |-> bm[name], calls |-> << >>]

\* what the body of `for idx, line in enumerate(lines)` does for line ix:
\* for each biomarker, its value afterwards and the calls made for it
ScanResults(bm, ls, ix) == [n \in BiomarkerNames |-> ScanBiomarker(bm, n, ls, ix)]

\* biomarkers after that body
ValuesOf(rs) == [n \in BiomarkerNames |-> rs[n].value]

\* the calls of extract_value that body makes, in the order of the dictionary
RECURSIVE CallsIn(_, _)
CallsIn(rs, b) ==
    IF b > Len(BiomarkerOrder) THEN << >>
    ELSE rs[BiomarkerOrder[b]].calls \o CallsIn(rs, b + 1)

ScanLine(bm, ls, ix) == ValuesOf(ScanResults(bm, ls, ix))

\* biomarkers after the whole loop over the lines, entered at line ix
RECURSIVE ScanFrom(_, _, _)
ScanFrom(bm, ls, ix) ==
    IF ix > Len(ls) THEN bm ELSE ScanFrom(ScanLine(bm, ls, ix), ls, ix + 1)

-----------------------------------------------------------------------------
(* process_pdf_to_json: reading and assembling *)

\* a document is [path, kind, pages]: kind "ok", "unreadable" (pdfplumber.open
\* raises) or "corrupt" (page.extract_text raises); a page is the text that
\* extract_text returns, << >> for a page with none

\* full_text: text + "\n" for every page whose text is not empty
RECURSIVE FullText(_)
FullText(pages) ==
    IF pages = << >> THEN << >>
    ELSE (IF Head(pages) # << >> THEN Head(pages) \o <<"\n">> ELSE << >>) \o FullText(Tail(pages))

\* os.path.basename(pdf_path)
Basename(path) ==
    LET slashes == {i \in 1..Len(path) : path[i] = "/"}
    IN  IF slashes = {} THEN path
        ELSE SubSeq(path, (CHOOSE i \in slashes : \A j \in slashes : j <= i) + 1, Len(path))

\* fault model: the test `info["value"] is not None` is missing
AllNames(bm) == BiomarkerNames

\* the biomarkers whose entry biomarkers_data gets
Found(bm) == {n \in BiomarkerNames : bm[n] # None}

\* biomarkers_data: {"value": info["value"], **reference_ranges[biomarker]}
BiomarkersData(bm) ==
    [n \in Found(bm) |-> [ value           |-> bm[n],
                           unit            |-> get_reference_ranges[n].unit,
                           reference_range |-> get_reference_ranges[n].reference_range,
                           low             |-> get_reference_ranges[n].low,
                           high            |-> get_reference_ranges[n].high ]]

\* json_data
JsonData(info, bm, pdf_path, current_date) ==
    [ patient     |-> info,
      biomarkers  |-> BiomarkersData(bm),
      report_info |-> [ pdf_filename   |-> Basename(pdf_path),
                        processed_date |-> StrfDateTime(current_date) ] ]

\* whether the body of the try block raises before the scan
ReadRaises(doc) == doc.kind # "ok"

\* fault model: no except clause, so an exception leaves the call
PropagatesUncaught(raised) == raised

\* whether an exception raised inside process_pdf_to_json leaves it: the
\* try block spans the whole body and `except Exception` returns False
Propagates(raised) == FALSE

\* one whole call process_pdf_to_json(doc.path): the value returned, whether
\* an exception leaves the call, the fault met, and the reports directory
Returned(fs, info, data, now, write_ok) ==
    [ ret |-> write_ok, raised |-> FALSE,
      fs |-> save_biomarkers_json(fs, data, info.name, now, write_ok),
      fault |-> IF write_ok THEN "none" ELSE "save",
      name |-> info.name, path |-> ReportPath(info.name, now) ]

Processed(doc, fs, info, bm, now, write_ok) ==
    Returned(fs, info, JsonData(info, bm, doc.path, now), now, write_ok)

ProcessText(doc, fs, full_text, now, write_ok) ==
    Processed(doc, fs, extract_patient_info(full_text, now),
              ScanFrom(NoValues, SplitOn(full_text, "\n"), 1), now, write_ok)

ProcessPdf(doc, fs, now, write_ok) ==
    IF ReadRaises(doc)
    THEN [ ret |-> FALSE, raised |-> Propagates(TRUE), fs |-> fs,
           fault |-> IF doc.kind = "unreadable" THEN "read" ELSE "extract",
           name |-> << >>, path |-> << >> ]
    ELSE ProcessText(doc, fs, FullText(doc.pages), now, write_ok)

-----------------------------------------------------------------------------
(* Inputs of process_pdf_to_json and process_directory *)

\* the page texts a document given to process_pdf_to_json is made of:
\*   LDL-C 120               an alias of LDL and a value
\*   ldl cholesterol 95 mg   another alias of LDL, in lower case, another value
\*   LDL-C                   an alias of LDL and no value
\*   HbA1c - (HPLC) 7.0      two aliases of HbA1c, and a number on the line itself
\*   6.1 % / 5.5             two lines, each with a value and no alias
\*   mg                      neither an alias nor a value
\*   NAME: A (5Y/M)          the patient line
\*   and a page without text
PagePool ==
    { <<"L", "D", "L", "-", "C", " ", "1", "2", "0">>,
      <<"l", "d", "l", " ", "c", "h", "o", "l", "e", "s", "t", "e", "r", "o", "l", " ", "9", "5", " ", "m", "g">>,
      <<"L", "D", "L", "-", "C">>,
      <<"H", "b", "A", "1", "c", " ", "-", " ", "(", "H", "P", "L", "C", ")", " ", "7", ".", "0">>,
      <<"6", ".", "1", " ", "%", "\n", "5", ".", "5">>,
      <<"m", "g">>,
      <<"N", "A", "M", "E", ":", " ", "A", " ", "(", "5", "Y", "/", "M", ")">>,
      << >> }

\* pdf_path of the __main__ block
SamplePath == <<"S", "a", "m", "p", "l", "e", " ", "R", "e", "p", "o", "r", "t", "s", "/", "R", "e", "p", "o", "r", "t", "A", "c", "c", "e", "s", "s", ".", "a", "s", "p", "x", ".", "p", "d", "f">>

Pdfs ==
    {[path |-> SamplePath, kind |-> "ok", pages |-> ps] : ps \in SeqsUpTo(PagePool, MaxPages)}
    \cup {[path |-> SamplePath, kind |-> kd, pages |-> << >>] : kd \in {"unreadable", "corrupt"}}

\* the documents a directory given to process_directory holds: patients
\* "A B" and "A-B" with an LDL value each, a document without a patient
\* line, one that cannot be opened and one whose pages cannot be read
BatchContents ==
    { [kind |-> "ok", pages |-> << <<"N", "A", "M", "E", ":", " ", "A", " ", "B", "\n", "L", "D", "L", "-", "C", " ", "1", "2", "0">> >>],
      [kind |-> "ok", pages |-> << <<"N", "A", "M", "E", ":", " ", "A", "-", "B", "\n", "L", "D", "L", "-", "C", " ", "9", "5">> >>],
      [kind |-> "ok", pages |-> << <<"L", "D", "L", "-", "C", " ", "1", "0", "0">> >>],
      [kind |-> "unreadable", pages |-> << >>],
      [kind |-> "corrupt", pages |-> << >>] }

\* the i-th path glob.glob returns
FilePath(i) == <<"S", "a", "m", "p", "l", "e", " ", "R", "e", "p", "o", "r", "t", "s", "/">> \o Pad(i, 1) \o <<".", "p", "d", "f">>

Directories ==
    {[i \in 1..Len(cs) |-> [path |-> FilePath(i), kind |-> cs[i].kind, pages |-> cs[i].pages]] :
        cs \in SeqsUpTo(BatchContents, MaxFiles)}

\* the earlier of the Dates
FirstDate == CHOOSE d \in Dates : \A e \in Dates : d[3] <= e[3]

\* the reports directory with no file in it
NoReports == << >>

-----------------------------------------------------------------------------
(* Initial states *)

IdleValue == ev_line = << >> /\ ev_name = << >> /\ ev_result = None /\ ev_pc = "idle"

IdlePatient == pi_text = << >> /\ pi_result = None /\ pi_pc = "idle"

IdlePdf ==
    /\ pdf = None /\ lines = << >> /\ idx = 0 /\ biomarkers = NoValues /\ calls = << >>
    /\ patient_info = None /\ json_data = None /\ pc = "idle" /\ ret = << >>

IdleBatch ==
    /\ pdf_files = << >> /\ k = 0 /\ attempts = << >> /\ results = << >> /\ faults = << >>
    /\ saved = << >> /\ bpc = "idle"

\* before a call extract_value(ev_line, ev_name)
InitValue ==
    /\ ev_line \in ValueLines /\ ev_name \in BiomarkerNames
    /\ ev_result = None /\ ev_pc = "call"
    /\ clock = FirstDate /\ reports = NoReports
    /\ IdlePatient /\ IdlePdf /\ IdleBatch

\* before a call extract_patient_info(pi_text)
InitPatient ==
    /\ pi_text \in InfoTexts /\ pi_result = None /\ pi_pc = "call"
    /\ clock \in Dates /\ reports = NoReports
    /\ IdleValue /\ IdlePdf /\ IdleBatch

\* before a call process_pdf_to_json(pdf.path)
Init ==
    /\ pdf \in Pdfs /\ lines = << >> /\ idx = 0 /\ biomarkers = NoValues /\ calls = << >>
    /\ patient_info = None /\ json_data = None /\ pc = "open" /\ ret = << >>
    /\ clock = FirstDate /\ reports = NoReports
    /\ IdleValue /\ IdlePatient /\ IdleBatch

\* before a call process_directory(directory_path)
InitBatch ==
    /\ pdf_files \in Directories /\ k = 0 /\ attempts = [i \in DOMAIN pdf_files |-> 0]
    /\ results = << >> /\ faults = << >> /\ saved = << >> /\ bpc = "glob"
    /\ clock \in Dates /\ reports = NoReports
    /\ IdleValue /\ IdlePatient /\ IdlePdf

-----------------------------------------------------------------------------
(* Actions *)

\* extract_value(ev_line, ev_name) runs and returns
CallExtractValue ==
    /\ ev_pc = "call"
    /\ ev_result' = extract_value(ev_line, ev_name)
    /\ ev_pc' = "done"
    /\ UNCHANGED << ev_line, ev_name, piVars, pdfVars, batchVars, clock, reports >>

\* extract_patient_info(pi_text) runs and returns
CallExtractPatientInfo ==
    /\ pi_pc = "call"
    /\ pi_result' = extract_patient_info(pi_text, clock)
    /\ pi_pc' = "done"
    /\ UNCHANGED << pi_text, evVars, pdfVars, batchVars, clock, reports >>

\* process_pdf_to_json up to the loop over the lines: the pages are read,
\* extract_patient_info runs and the text is split; an exception of the
\* reader ends the call. idx counts the lines from 1, Python's from 0.
Open ==
    /\ pc = "open"
    /\ IF ReadRaises(pdf)
       THEN /\ IF Propagates(TRUE)
               THEN pc' = "raised" /\ ret' = ret
               ELSE pc' = "done" /\ ret' = << FALSE >>
            /\ UNCHANGED << lines, idx, patient_info >>
       ELSE /\ patient_info' = extract_patient_info(FullText(pdf.pages), clock)
            /\ lines' = SplitOn(FullText(pdf.pages), "\n")
            /\ idx' = 1
            /\ pc' = "scan"
            /\ ret' = ret
    /\ UNCHANGED << pdf, biomarkers, calls, json_data, evVars, piVars, batchVars, clock, reports >>

\* biomarkers and the calls made so far after one pass that gave rs
Scanned(rs) ==
    /\ biomarkers' = ValuesOf(rs)
    /\ calls' = calls \o CallsIn(rs, 1)

\* one pass of the body of `for idx, line in enumerate(lines)`
ScanStep ==
    /\ pc = "scan"
    /\ idx <= Len(lines)
    /\ Scanned(ScanResults(biomarkers, lines, idx))
    /\ idx' = idx + 1
    /\ UNCHANGED << pdf, lines, patient_info, json_data, pc, ret,
                    evVars, piVars, batchVars, clock, reports >>

\* the loop has ended: biomarkers_data and json_data are built
Assemble ==
    /\ pc = "scan"
    /\ idx > Len(lines)
    /\ json_data' = JsonData(patient_info, biomarkers, pdf.path, clock)
    /\ pc' = "save"
    /\ UNCHANGED << pdf, lines, idx, biomarkers, calls, patient_info, ret,
                    evVars, piVars, batchVars, clock, reports >>

\* save_biomarkers_json runs, the summary is printed and the call returns
Save ==
    /\ pc = "save"
    /\ \E write_ok \in BOOLEAN :
          /\ reports' = save_biomarkers_json(reports, json_data, patient_info.name,
                                             clock, write_ok)
          /\ ret' = << write_ok >>
    /\ pc' = "done"
    /\ UNCHANGED << pdf, lines, idx, biomarkers, calls, patient_info, json_data,
                    evVars, piVars, batchVars, clock >>

\* process_directory up to its loop: glob.glob lists the documents, and the
\* function returns when there is none
Glob ==
    /\ bpc = "glob"
    /\ IF pdf_files = << >> THEN bpc' = "done" /\ k' = k ELSE bpc' = "loop" /\ k' = 1
    /\ UNCHANGED << pdf_files, attempts, results, faults, saved, clock, reports,
                    evVars, piVars, pdfVars >>

\* the loop of process_directory after process_pdf_to_json gave r for the
\* k-th document: an exception that leaves the call ends the loop
AfterCall(r) ==
    /\ attempts' = [attempts EXCEPT ![k] = @ + 1]
    /\ reports' = r.fs
    /\ faults' = Append(faults, r.fault)
    /\ saved' = IF r.fault = "none"
                THEN Append(saved, [file |-> k, name |-> r.name, path |-> r.path,
                                    date |-> StrfCompact(clock)])
                ELSE saved
    /\ IF r.raised
       THEN bpc' = "raised" /\ k' = k /\ results' = results
       ELSE /\ results' = Append(results, r.ret)
            /\ k' = k + 1
            /\ bpc' = IF k = Len(pdf_files) THEN "done" ELSE "loop"

\* one pass of `for pdf_file in pdf_files`: process_pdf_to_json(pdf_file)
ProcessNext ==
    /\ bpc = "loop"
    /\ \E write_ok \in BOOLEAN : AfterCall(ProcessPdf(pdf_files[k], reports, clock, write_ok))
    /\ UNCHANGED << pdf_files, clock, evVars, piVars, pdfVars >>

\* the day changes while the batch runs
Tick ==
    /\ bpc = "loop"
    /\ \E d \in Dates : d[3] > clock[3] /\ clock' = d
    /\ UNCHANGED << pdf_files, k, attempts, results, faults, saved, bpc, reports,
                    evVars, piVars, pdfVars >>

-----------------------------------------------------------------------------
(* Specifications *)

NextValue == CallExtractValue

NextPatient == CallExtractPatientInfo

Next == Open \/ ScanStep \/ Assemble \/ Save

NextBatch == Glob \/ ProcessNext \/ Tick

\* one call of process_pdf_to_json
Spec == Init /\ [][Next]_vars

\* one call of extract_value
SpecValue == InitValue /\ [][NextValue]_vars

\* one call of extract_patient_info
SpecPatient == InitPatient /\ [][NextPatient]_vars

\* one call of process_directory
SpecBatch == InitBatch /\ [][NextBatch]_vars

-----------------------------------------------------------------------------
(* Properties of the line scan of process_pdf_to_json, under Spec *)

\* whether a line contains one of the aliases of a biomarker, in any case
AliasIn(name, line) ==
    \E p \in 1..Len(Patterns[name]) : Contains(Lower(Patterns[name][p]), Lower(line))

\* the lines already scanned that contain an alias of the biomarker and from
\* which a value can be extracted
ValueLinesOf(name) ==
    {i \in 1..Len(lines) : i < idx /\ AliasIn(name, lines[i])
                                   /\ extract_value(lines[i], name) # None}

\* the calls of extract_value made so far for one biomarker
CallsOf(name) == {j \in 1..Len(calls) : calls[j].biomarker = name}

\* C1: a biomarker's value, once set, is never changed by a later step of the
\* scan; and the value of a biomarker other than HbA1c is at every moment the
\* one extracted from the earliest scanned line that contains one of its
\* aliases and yields a value, whatever later lines hold
C1_FirstMatchWins ==
    /\ [][\A n \in BiomarkerNames : biomarkers[n] # None => biomarkers'[n] = biomarkers[n]]_vars
    /\ [](pc \in {"scan", "save", "done"} =>
            \A n \in BiomarkerNames \ {HbA1c} :
                IF ValueLinesOf(n) = {} THEN biomarkers[n] = None
                ELSE biomarkers[n] = extract_value(lines[Min(ValueLinesOf(n))], n))

\* two lines hold an alias of LDL with different values, and the scan ended
\* with the value of the earlier one
C1_Witness ==
    /\ pc = "done"
    /\ \E i, j \in ValueLinesOf(LDL) :
          /\ i < j
          /\ extract_value(lines[i], LDL) # extract_value(lines[j], LDL)
          /\ biomarkers[LDL] = extract_value(lines[i], LDL)

\* C2: every call of extract_value made for HbA1c is for a pattern found in a
\* line i and reads an existing line i+1 or i+2, never line i; for one match
\* the offsets are tried in increasing order, offset 2 only after offset 1
\* (when that line exists) gave nothing; no call follows one that gave a
\* number; and the value stored is the number of that call
C2_LookaheadOnly ==
    /\ \A j \in CallsOf(HbA1c) :
          /\ calls[j].at \in 1..Len(lines)
          /\ Contains(Lower(Patterns[HbA1c][calls[j].pattern]), Lower(lines[calls[j].at]))
          /\ calls[j].line \in {calls[j].at + 1, calls[j].at + 2}
          /\ calls[j].line <= Len(lines)
          /\ calls[j].value = extract_value(lines[calls[j].line], HbA1c)
          /\ calls[j].line = calls[j].at + 2 =>
                /\ j - 1 \in CallsOf(HbA1c)
                /\ calls[j - 1].at = calls[j].at
                /\ calls[j - 1].pattern = calls[j].pattern
                /\ calls[j - 1].line = calls[j].at + 1
          /\ \A h \in CallsOf(HbA1c) : h < j => calls[h].value = None
    /\ IF \E j \in CallsOf(HbA1c) : calls[j].value # None
       THEN \E j \in CallsOf(HbA1c) : biomarkers[HbA1c] = calls[j].value
       ELSE biomarkers[HbA1c] = None

\* HbA1c was found at offset 2 of a matching line that itself holds a number,
\* after offset 1 gave nothing
C2_Witness ==
    /\ pc = "done"
    /\ \E j \in CallsOf(HbA1c) :
          /\ calls[j].line = calls[j].at + 2
          /\ calls[j].value # None
          /\ biomarkers[HbA1c] = calls[j].value
          /\ extract_value(lines[calls[j].at], HbA1c) # None

\* C3: every call of extract_value made for a biomarker other than HbA1c
\* reads the very line in which one of its aliases was found, and a value
\* stored for such a biomarker is the result of one of these calls
C3_SameLineOnly ==
    /\ \A j \in 1..Len(calls) :
          calls[j].biomarker # HbA1c =>
              /\ calls[j].line = calls[j].at
              /\ calls[j].line \in 1..Len(lines)
              /\ AliasIn(calls[j].biomarker, lines[calls[j].line])
              /\ calls[j].value = extract_value(lines[calls[j].line], calls[j].biomarker)
    /\ \A n \in BiomarkerNames \ {HbA1c} :
          biomarkers[n] # None => \E j \in CallsOf(n) : calls[j].value = biomarkers[n]

\* LDL was found although a line without an alias of LDL, holding a number,
\* directly follows a line with an alias of LDL and no number
C3_Witness ==
    /\ pc = "done"
    /\ biomarkers[LDL] # None
    /\ \E i \in 1..(Len(lines) - 1) :
          /\ AliasIn(LDL, lines[i]) /\ extract_value(lines[i], LDL) = None
          /\ ~AliasIn(LDL, lines[i + 1]) /\ extract_value(lines[i + 1], LDL) # None
          /\ biomarkers[LDL] # extract_value(lines[i + 1], LDL)

-----------------------------------------------------------------------------
(* Properties of the assembled record, under Spec *)

\* the eight names of the vocabulary
Vocabulary ==
    { <<"V", "i", "t", "a", "m", "i", "n", " ", "D">>, <<"V", "i", "t", "a", "m", "i", "n", " ", "B", "1", "2">>, <<"T", "o", "t", "a", "l", " ", "C", "h", "o", "l", "e", "s", "t", "e", "r", "o", "l">>, <<"L", "D", "L">>, <<"H", "D", "L">>,
      <<"T", "r", "i", "g", "l", "y", "c", "e", "r", "i", "d", "e", "s">>, <<"C", "r", "e", "a", "t", "i", "n", "i", "n", "e">>, <<"H", "b", "A", "1", "c">> }

\* C7: the keys of the biomarkers mapping of json_data are exactly the
\* biomarkers the scan found a value for, all of the vocabulary, and no
\* entry holds an absent value
C7_FoundKeysOnly ==
    json_data # None =>
        /\ DOMAIN json_data.biomarkers = {n \in DOMAIN biomarkers : biomarkers[n] # None}
        /\ DOMAIN json_data.biomarkers \subseteq Vocabulary
        /\ \A n \in DOMAIN json_data.biomarkers :
              /\ json_data.biomarkers[n].value # None
              /\ json_data.biomarkers[n].value = biomarkers[n]

\* a record was assembled after a scan that found LDL and HbA1c and nothing else
C7_Witness ==
    /\ pc = "done"
    /\ json_data # None
    /\ DOMAIN json_data.biomarkers = {LDL, HbA1c}

\* whether the document was read and no line of its text holds the marker
NoMarker == pdf.kind = "ok" /\ \A i \in 1..Len(lines) : ~Contains(<<"N", "A", "M", "E">>, lines[i])

\* C9: when the text of a document holds "NAME" in no line, the patient is "Unknown" with age and
\* gender absent, the record is assembled all the same with its three parts,
\* and the call returns True unless the write of the file failed
C9_UnknownPatient ==
    (pc \in {"scan", "save", "done"} /\ NoMarker) =>
        /\ patient_info.name = <<"U", "n", "k", "n", "o", "w", "n">>
        /\ patient_info.age = None
        /\ patient_info.gender = None
        /\ pc \in {"save", "done"} =>
              /\ json_data # None
              /\ DOMAIN json_data = {"patient", "biomarkers", "report_info"}
              /\ json_data.patient = patient_info
        /\ pc = "done" =>
              /\ ret = << reports # NoReports >>
              /\ ret = << TRUE >> => DOMAIN reports = {ReportPath(<<"U", "n", "k", "n", "o", "w", "n">>, clock)}

\* a document with text, a biomarker and no marker was processed and saved
C9_Witness ==
    /\ pc = "done"
    /\ NoMarker
    /\ Len(lines) > 1
    /\ ret = << TRUE >>
    /\ json_data.patient.name = <<"U", "n", "k", "n", "o", "w", "n">>
    /\ DOMAIN json_data.biomarkers # {}

-----------------------------------------------------------------------------
(* Properties of extract_value, under SpecValue *)

\* the words of the cleaned line that float() accepts
NumberWords(words) == {i \in 1..Len(words) : ParseFloat(words[i]) # None}

\* C4 as stated: for an HbA1c name, a line whose cleaned text matches none of
\* the four patterns gives None
C4_NoPatternGivesNone ==
    (ev_pc = "done" /\ Contains(<<"h", "b", "a", "1", "c">>, Lower(ev_name))
                    /\ ~AnyPattern(RemoveChars(ev_line, {",", "<", ">"})))
        => ev_result = None

\* C10: for a name without "hba1c", the result is the number of the rightmost
\* whitespace-delimited word of the line without its commas, "<" and ">"
\* that is a number, and None when no word is one
C10_RightmostNumber ==
    (ev_pc = "done" /\ ~Contains(<<"h", "b", "a", "1", "c">>, Lower(ev_name))) =>
        LET words == SplitWords(RemoveChars(ev_line, {",", "<", ">"}))
        IN  IF NumberWords(words) = {} THEN ev_result = None
            ELSE ev_result =
                    ParseFloat(words[CHOOSE i \in NumberWords(words) :
                                        \A j \in NumberWords(words) : j <= i])

\* a line with two number words of different values gave the right one
C10_Witness ==
    /\ ev_pc = "done"
    /\ ~Contains(<<"h", "b", "a", "1", "c">>, Lower(ev_name))
    /\ LET words == SplitWords(RemoveChars(ev_line, {",", "<", ">"}))
       IN  /\ Len(words) = 2
           /\ NumberWords(words) = {1, 2}
           /\ ParseFloat(words[1]) # ParseFloat(words[2])
           /\ ev_result = ParseFloat(words[2])
           /\ ev_line # RemoveChars(ev_line, {",", "<", ">"})

-----------------------------------------------------------------------------
(* Properties of extract_patient_info, under SpecPatient *)

InfoLines == SplitOn(pi_text, "\n")

\* the lines that hold the marker
MarkerLines == {i \in 1..Len(InfoLines) : Contains(<<"N", "A", "M", "E">>, InfoLines[i])}

\* the lines in which some "NAME" is directly followed by a character other
\* than "(": the lines the name pattern matches
NamedLines ==
    {i \in MarkerLines :
        \E b \in 1..Len(InfoLines[i]) :
            /\ MatchAt(<<"N", "A", "M", "E">>, InfoLines[i], b)
            /\ b + 4 <= Len(InfoLines[i])
            /\ InfoLines[i][b + 4] # "("}

\* C5 as stated: the result is the one of the first line that holds "NAME",
\* whatever the later lines hold
C5_FirstMarkerLineDecides ==
    (pi_pc = "done" /\ MarkerLines # {}) =>
        pi_result = extract_patient_info(InfoLines[Min(MarkerLines)], clock)

\* C5 as amended: the result is the one of the first line in which "NAME" is
\* directly followed by a character other than "("; lines before it that
\* hold "NAME" only at their end or before "(" are passed over, no line
\* after it has any influence, and without such a line the result is the
\* "Unknown" patient
C5_FirstNamedLineDecides ==
    pi_pc = "done" =>
        IF NamedLines = {} THEN pi_result = UnknownInfo(clock)
        ELSE pi_result = InfoFromLine(InfoLines[Min(NamedLines)], clock)

\* a marker line the pattern fails on is followed by two lines it matches,
\* which name different patients, and the result is the first of these
C5_Witness ==
    /\ pi_pc = "done"
    /\ \E h \in MarkerLines \ NamedLines : \E i, j \in NamedLines :
          /\ h < i /\ i < j
          /\ InfoFromLine(InfoLines[i], clock) # InfoFromLine(InfoLines[j], clock)
          /\ pi_result = InfoFromLine(InfoLines[i], clock)

-----------------------------------------------------------------------------
(* Properties of process_directory, under SpecBatch *)

\* C6: no document is attempted twice, and when process_directory has ended
\* every listed document was attempted once and has a result, which is False
\* for a document that could not be read, whose extraction failed or whose
\* record could not be saved
C6_BatchResilience ==
    /\ \A i \in DOMAIN pdf_files : attempts[i] <= 1
    /\ bpc \in {"done", "raised"} =>
          /\ \A i \in DOMAIN pdf_files : attempts[i] = 1
          /\ Len(results) = Len(pdf_files)
          /\ Len(faults) = Len(pdf_files)
          /\ \A i \in DOMAIN pdf_files :
                /\ pdf_files[i].kind # "ok" => faults[i] # "none"
                /\ faults[i] # "none" => results[i] = FALSE

\* of three documents the second could not be read, and the first and the
\* third were processed and saved
C6_Witness ==
    /\ bpc = "done"
    /\ Len(pdf_files) = 3
    /\ pdf_files[2].kind = "unreadable"
    /\ results = << TRUE, FALSE, TRUE >>
    /\ \A i \in 1..3 : attempts[i] = 1

\* C8 as stated: two records saved on the same date for patients of
\* different names are written to different files
C8_DistinctNamesDistinctPaths ==
    \A i, j \in 1..Len(saved) :
        (saved[i].name # saved[j].name /\ saved[i].date = saved[j].date)
            => saved[i].path # saved[j].path
=============================================================================
